---- MODULE Spec2Model ----
(***************************************************************************)
(* Model of mopidy/http/handlers.py: the WebSocket handler with its shared *)
(* connection set and broadcast, and the JSON-RPC request handler.         *)
(*                                                                         *)
(* Tornado runs open, on_close, on_message, head and post as callbacks of  *)
(* one IOLoop, so each of them is one atomic action.  broadcast is a       *)
(* classmethod that the event source calls directly; it iterates the live  *)
(* set `clients` with a plain `for`, which takes no lock and no copy, so   *)
(* its loop is modelled one iteration at a time and the IOLoop callbacks   *)
(* may run between two iterations.                                         *)
(***************************************************************************)
EXTENDS Integers, Sequences, FiniteSets

\* Number of WebSocket connections the environment may create.
NumConns == 2

\* The requests followed on the connection under observation.
MaxReqs == 2

Conns == 1..NumConns

\* The handler objects: the WebSocket connections, and 0 for the
\* JsonRpcHandler that Tornado creates for the request at hand.
Handlers == Conns \cup {0}

\* Inbound payloads (WebSocket messages and POST bodies); "" is the empty one.
Messages == {"", "m1", "m2"}
\* Payloads the event source hands to broadcast.
Events == {"e1"}
\* What jsonrpc.handle_json does with a non-empty payload.
DispatchOutcomes == {"raise", "empty", "response"}
\* What the transport does with a write on a usable channel.
WriteOutcomes == {"ok", "raise"}

VARIABLES
    clients,        \* WebSocketHandler.clients, the shared set
    phase,          \* per connection: which lifecycle callbacks have run
    ws_connection,  \* per connection: self.ws_connection is set
    faulted,        \* connections on which on_message has called close()
    jsonrpc,        \* per handler object: self.jsonrpc, set by initialize
    wire,           \* what one connection under observation received and
                    \* was answered, in the order of the events
    bc,             \* the running broadcast call and its set iterator
    last            \* what the most recent handler call was given and did

vars == <<clients, phase, ws_connection, faulted, jsonrpc, wire, bc, last>>

----------------------------------------------------------------------------
\* Payloads

None == [kind |-> "none", data |-> ""]

\* Faulty variant of Response: the answer to another request than the one
\* at hand.
Response_stale(message) == [kind |-> "response", data |-> "m1"]

Response(message) == [kind |-> "response", data |-> message]
Event(msg) == [kind |-> "event", data |-> msg]
ErrorPage(status) == [kind |-> "error", data |-> status]

\* jsonrpc.handle_json as the handlers see it: a response payload for the
\* request, or nothing (a notification).  Raising is the outcome "raise".
handle_json(message, disp) ==
    IF disp = "response" THEN Response(message) ELSE None

\* Faulty variant of truthy: the `response and` guard forgotten.
truthy_always(response) == TRUE

\* Truthiness of a dispatcher result, as in `if response and ...`.
truthy(response) == response # None

\* One write_message call: the connection written to and the payload.
Write(conn, payload) == [conn |-> conn, payload |-> payload]

Range(s) == {s[i] : i \in 1..Len(s)}

----------------------------------------------------------------------------
\* The record of a handler call

NoCall ==
    [op |-> "none", conn |-> 0, msg |-> "", disp |-> "none", wr |-> "none",
     pre |-> "none", dispatched |-> FALSE, logged |-> FALSE,
     closeCalled |-> FALSE, raised |-> FALSE, wrote |-> <<>>,
     headers |-> {}, body |-> <<>>, finished |-> FALSE,
     ncalls |-> 0, status |-> ""]

Call(op, conn, msg) == [NoCall EXCEPT !.op = op, !.conn = conn, !.msg = msg]

\* Lifecycle of a connection as the handlers have seen it: "connecting"
\* (no callback yet), "open" (open ran), "closing" (an opened connection on
\* which close() was called and on_close is still due), "closed" (on_close
\* ran after open), "aborted" (on_close ran and open never did).
Lifecycle(c) ==
    IF phase[c] = "open" /\ ~ws_connection[c] THEN "closing" ELSE phase[c]

----------------------------------------------------------------------------
\* make_jsonrpc_wrapper

\* Faulty variant of inspector_objects: one capability group left out.
inspector_objects_short ==
    {"core.get_uri_schemes", "core.get_version", "core.library",
     "core.playback", "core.playlists"}

\* The objects the JsonRpcInspector describes.
inspector_objects ==
    {"core.get_uri_schemes", "core.get_version", "core.library",
     "core.playback", "core.playlists", "core.tracklist"}

\* The objects the JsonRpcWrapper dispatches to.
wrapper_objects ==
    {"core.describe", "core.get_uri_schemes", "core.get_version",
     "core.library", "core.playback", "core.playlists", "core.tracklist"}

\* make_jsonrpc_wrapper(core_actor): the dispatch table by its method-name
\* keys, and what its "core.describe" entry (inspector.describe) describes.
make_jsonrpc_wrapper ==
    [objects |-> wrapper_objects, describes |-> inspector_objects]

----------------------------------------------------------------------------
\* WebSocketHandler

Init ==
    /\ clients = {}
    /\ phase = [c \in Conns |-> "connecting"]
    /\ ws_connection = [c \in Conns |-> TRUE]
    /\ faulted = {}
    /\ jsonrpc = [h \in Handlers |-> make_jsonrpc_wrapper]
    /\ wire = [on |-> FALSE, conn |-> 0, log |-> <<>>]
    /\ bc = [pc |-> "idle", msg |-> "", si_pos |-> 0, si_used |-> 0,
             snap |-> {}, written |-> <<>>, failed |-> {}, err |-> "none"]
    /\ last = NoCall

\* Faulty variant of clients_add: the connection is not registered.
clients_add_noop(S, self) == S

\* self.clients.add(self)
clients_add(S, self) == S \cup {self}

\* Faulty variant of clients_discard: the connection is not unregistered.
clients_discard_keep(S, self) == S

\* Faulty variant of clients_discard: a second call registers it again.
clients_discard_toggle(S, self) ==
    IF self \in S THEN S \ {self} ELSE S \cup {self}

\* self.clients.discard(self)
clients_discard(S, self) == S \ {self}

\* Faulty variant of clients_discard_raises: set.remove in place of discard.
clients_remove_raises(S, self) == self \notin S

\* set.discard raises nothing when the element is absent (set.remove would
\* raise KeyError).
clients_discard_raises(S, self) == FALSE

\* open(): called once, after the handshake.
open(self) ==
    /\ phase[self] = "connecting"
    /\ clients' = clients_add(clients, self)
    /\ phase' = [phase EXCEPT ![self] = "open"]
    /\ last' = [Call("open", self, "") EXCEPT !.pre = Lifecycle(self)]
    /\ UNCHANGED <<ws_connection, faulted, jsonrpc, wire, bc>>

\* on_close(): the close notification.  Tornado clears ws_connection before
\* it calls on_close; the notification may come for a connection that never
\* opened (handshake aborted) and may be repeated.
on_close(self) ==
    /\ clients' = clients_discard(clients, self)
    /\ phase' = [phase EXCEPT
                    ![self] = IF @ \in {"connecting", "aborted"}
                              THEN "aborted" ELSE "closed"]
    /\ ws_connection' = [ws_connection EXCEPT ![self] = FALSE]
    /\ last' = [Call("on_close", self, "") EXCEPT
                   !.pre = Lifecycle(self),
                   !.raised = clients_discard_raises(clients, self)]
    /\ UNCHANGED <<faulted, jsonrpc, wire, bc>>

\* write_message raises on a connection whose ws_connection is unset, and
\* may raise on a usable one when the stream fails.
write_raises(self, wr) == ~ws_connection[self] \/ wr = "raise"

\* Faulty variant of is_empty: the early return forgotten.
is_empty_never(message) == FALSE

\* `if not message: return`
is_empty(message) == message = ""

\* Faulty variant of should_close: the failed connection is left open.
should_close_never(self) == FALSE

\* `if self.ws_connection:` in the except branch
should_close(self) == ws_connection[self]

\* Faulty variant of close: every connection is closed.
close_all(ws, self) == [c \in Conns |-> FALSE]

\* self.close(): Tornado starts the closing handshake and unsets
\* ws_connection; on_close comes later, with the end of the connection.
close(ws, self) == [ws EXCEPT ![self] = FALSE]

\* Faulty variant of close_clients: close() empties the set.
close_clears(S, self) == {}

\* Faulty variant of close_clients: close() unregisters at once.
close_unregisters(S, self) == S \ {self}

\* The except branch and close() leave the connection set alone.
close_clients(S, self) == S

\* The observation of one connection: each request it receives and each
\* response written to it, appended when it happens.
wire_in(message) == [dir |-> "in", data |-> message]

wire_out(payload) == [dir |-> "out", data |-> payload.data]

wire_seen(w, self) == w.on /\ w.conn = self

wire_requests(w) == SelectSeq(w.log, LAMBDA e : e.dir = "in")

wire_responses(w) == SelectSeq(w.log, LAMBDA e : e.dir = "out")

wire_log(w, self, entries) ==
    IF wire_seen(w, self) THEN [w EXCEPT !.log = @ \o entries] ELSE w

\* on_message(message)
on_message(self, message, disp, wr) ==
    /\ phase[self] = "open"
    /\ (wire_seen(wire, self) /\ ~is_empty(message)) =>
           Len(wire_requests(wire)) < MaxReqs
    /\ UNCHANGED jsonrpc
    /\ IF is_empty(message)
       THEN /\ last' = [Call("on_message", self, message)
                            EXCEPT !.pre = Lifecycle(self)]
            /\ UNCHANGED <<clients, phase, ws_connection, faulted, wire, bc>>
       ELSE LET response == handle_json(message, disp)
                attempts == disp # "raise" /\ truthy(response)
                wfails   == attempts /\ write_raises(self, wr)
                fault    == disp = "raise" \/ wfails
                closes   == fault /\ should_close(self)
            IN  /\ ws_connection' =
                       IF closes THEN close(ws_connection, self)
                       ELSE ws_connection
                /\ clients' = IF closes THEN close_clients(clients, self)
                              ELSE clients
                /\ faulted' = IF closes THEN faulted \cup {self}
                              ELSE faulted
                /\ last' = [Call("on_message", self, message) EXCEPT
                               !.pre = Lifecycle(self),
                               !.disp = disp,
                               !.wr = IF ~attempts THEN "none"
                                      ELSE IF wfails THEN "raise" ELSE "ok",
                               !.dispatched = TRUE,
                               !.ncalls = 1,
                               !.wrote = IF attempts /\ ~wfails
                                         THEN <<Write(self, response)>>
                                         ELSE <<>>,
                               !.logged = fault,
                               !.closeCalled = closes]
                /\ wire' = wire_log(wire, self,
                               <<wire_in(message)>> \o
                               (IF attempts /\ ~wfails
                                THEN <<wire_out(response)>> ELSE <<>>))
                /\ UNCHANGED <<phase, bc>>

\* The set iterator behind `for client in cls.clients`: it remembers the
\* size of the set when the loop started and the table slot it has reached.
\* A handler object keeps its hash, so it keeps its slot; the slots are
\* taken in the order of the connection numbers, and the few connections
\* here never make the table grow.
setiter_new(S) == [si_pos |-> 0, si_used |-> Cardinality(S)]

\* next() first compares the remembered size with the current one and
\* raises RuntimeError("Set changed size during iteration") when they differ.
setiter_changed(it, S) == it.si_used # Cardinality(S)

\* The entries next() has still to visit: those in slots after si_pos.
setiter_rest(it, S) == {c \in S : c > it.si_pos}

Min(S) == CHOOSE x \in S : \A y \in S : x <= y

\* broadcast(msg): the call, up to the creation of the loop's iterator.
\* The event source calls it for one event at a time.
broadcast(msg) ==
    /\ bc.pc # "loop"
    /\ bc' = [pc |-> "loop", msg |-> msg,
              si_pos |-> setiter_new(clients).si_pos,
              si_used |-> setiter_new(clients).si_used,
              snap |-> clients, written |-> <<>>, failed |-> {},
              err |-> "none"]
    /\ last' = Call("broadcast", 0, msg)
    /\ UNCHANGED <<clients, phase, ws_connection, faulted, jsonrpc, wire>>

\* One turn of broadcast's loop: next() on the iterator, then
\* client.write_message(msg).  Neither exception is caught, so either one
\* ends the call.
broadcast_next(wr) ==
    /\ bc.pc = "loop"
    /\ IF setiter_changed(bc, clients)
       THEN /\ bc' = [bc EXCEPT !.pc = "raised", !.err = "RuntimeError"]
            /\ last' = [Call("broadcast", 0, bc.msg) EXCEPT !.raised = TRUE]
       ELSE IF setiter_rest(bc, clients) = {}
       THEN /\ bc' = [bc EXCEPT !.pc = "returned"]
            /\ last' = Call("broadcast", 0, bc.msg)
       ELSE LET client == Min(setiter_rest(bc, clients))
            IN  IF write_raises(client, wr)
                THEN /\ bc' = [bc EXCEPT !.pc = "raised",
                                         !.err = "WriteError",
                                         !.si_pos = client,
                                         !.failed = {client}]
                     /\ last' = [Call("broadcast", client, bc.msg) EXCEPT
                                    !.wr = "raise", !.raised = TRUE]
                ELSE /\ bc' = [bc EXCEPT !.si_pos = client,
                                         !.written = Append(@, client)]
                     /\ last' = [Call("broadcast", client, bc.msg) EXCEPT
                                    !.wr = "ok",
                                    !.wrote =
                                        <<Write(client, Event(bc.msg))>>]
    /\ UNCHANGED <<clients, phase, ws_connection, faulted, jsonrpc, wire>>

----------------------------------------------------------------------------
\* JsonRpcHandler: every request gets a handler object of its own, so the
\* response under construction lives in the record of the call.

set_mopidy_headers ==
    {<<"Cache-Control", "no-cache">>, <<"X-Mopidy-Version", "version">>}

set_extra_headers ==
    set_mopidy_headers \cup
        {<<"Accept", "application/json">>,
         <<"Content-Type", "application/json; utf-8">>}

\* Faulty variant of head: the probe is dispatched like a request.
head_dispatching ==
    /\ last' = [Call("head", 0, "") EXCEPT
                   !.headers = set_extra_headers, !.finished = TRUE,
                   !.status = "200", !.dispatched = TRUE, !.ncalls = 1,
                   !.body = <<Response("")>>]
    /\ UNCHANGED <<clients, phase, ws_connection, faulted, jsonrpc, wire, bc>>

\* head(): the headers, then finish().  A new response has status 200.
head ==
    /\ last' = [Call("head", 0, "") EXCEPT
                   !.headers = set_extra_headers, !.finished = TRUE,
                   !.status = "200"]
    /\ UNCHANGED <<clients, phase, ws_connection, faulted, jsonrpc, wire, bc>>

\* Faulty variant of no_data: the early return forgotten.
no_data_never(data) == FALSE

\* `if not data: return`
no_data(data) == data = ""

\* Faulty variant of post_body: the error page after a written response.
post_body_both(response, attempts, fault) ==
    IF attempts THEN
        IF fault THEN <<response, ErrorPage("500")>> ELSE <<response>>
    ELSE IF fault THEN <<ErrorPage("500")>> ELSE <<>>

\* What post writes to the response: self.write(response) in the try
\* branch when nothing raised, or the page of self.write_error(500) in the
\* except branch.  The exception itself goes to the log only.
post_body(response, attempts, fault) ==
    IF fault THEN <<ErrorPage("500")>>
    ELSE IF attempts THEN <<response>>
    ELSE <<>>

\* The status of the response after post: nothing in post calls
\* set_status, and write_error (unlike send_error) only renders the page
\* for the code it is given, so the status stays the 200 it started as.
post_status(fault) == "200"

\* post().  When it returns without finish(), Tornado finishes the
\* response with what has been set and written so far.
post(data, disp, wr) ==
    /\ IF no_data(data)
       THEN last' = [Call("post", 0, data) EXCEPT !.status = "200"]
       ELSE LET response == handle_json(data, disp)
                attempts == disp # "raise" /\ truthy(response)
                wfails   == attempts /\ wr = "raise"
                fault    == disp = "raise" \/ wfails
            IN  last' = [Call("post", 0, data) EXCEPT
                            !.disp = disp,
                            !.wr = IF ~attempts THEN "none"
                                   ELSE IF wfails THEN "raise" ELSE "ok",
                            !.dispatched = TRUE,
                            !.ncalls = 1,
                            !.headers = set_extra_headers,
                            !.logged = fault,
                            !.body = post_body(response, attempts, fault),
                            !.status = post_status(fault),
                            !.finished = fault]
    /\ UNCHANGED <<clients, phase, ws_connection, faulted, jsonrpc, wire, bc>>

----------------------------------------------------------------------------

\* What a call can meet: a message or body, the outcome of the dispatcher
\* and the outcome of the write.  The dispatcher is asked only about a
\* non-empty message and the write is made only for a response, so the
\* outcomes that are never consulted are not told apart.
Inputs ==
    {i \in Messages \X DispatchOutcomes \X WriteOutcomes :
        /\ i[1] = "" => i[2] = "empty"
        /\ i[2] # "response" => i[3] = "ok"}

Next ==
    \/ \E c \in Conns : open(c)
    \/ \E c \in Conns : on_close(c)
    \/ \E c \in Conns, i \in Inputs : on_message(c, i[1], i[2], i[3])
    \/ \E e \in Events : broadcast(e)
    \/ \E w \in WriteOutcomes : broadcast_next(w)
    \/ head
    \/ \E i \in Inputs : post(i[1], i[2], i[3])

Spec == Init /\ [][Next]_vars

\* The on_close that Tornado owes to a connection after close(): the
\* closing handshake or the end of the stream brings it.
deliver_on_close == \E c \in faulted \cap clients : on_close(c)

\* The same program where an on_close that is due is not put off for ever.
SpecFair == Spec /\ WF_vars(deliver_on_close)

\* One connection under observation, from the moment every connection has
\* been opened: the traffic of all connections and the broadcasts go on
\* around it while it stays connected.
InitOrder ==
    /\ clients = Conns
    /\ phase = [c \in Conns |-> "open"]
    /\ ws_connection = [c \in Conns |-> TRUE]
    /\ faulted = {}
    /\ jsonrpc = [h \in Handlers |-> make_jsonrpc_wrapper]
    /\ \E c \in Conns : wire = [on |-> TRUE, conn |-> c, log |-> <<>>]
    /\ bc = [pc |-> "idle", msg |-> "", si_pos |-> 0, si_used |-> 0,
             snap |-> {}, written |-> <<>>, failed |-> {}, err |-> "none"]
    /\ last = [Call("open", NumConns, "") EXCEPT !.pre = "connecting"]

NextOrder ==
    \/ \E c \in Conns, i \in Inputs : on_message(c, i[1], i[2], i[3])
    \/ \E e \in Events : broadcast(e)
    \/ \E w \in WriteOutcomes : broadcast_next(w)

SpecOrder == InitOrder /\ [][NextOrder]_vars

----------------------------------------------------------------------------
\* Properties

Payloads ==
    {None} \cup {Response(m) : m \in Messages} \cup {Event(e) : e \in Events}

TypeOK ==
    /\ clients \subseteq Conns
    /\ phase \in [Conns -> {"connecting", "open", "closed", "aborted"}]
    /\ ws_connection \in [Conns -> BOOLEAN]
    /\ faulted \subseteq Conns
    /\ bc.pc \in {"idle", "loop", "returned", "raised"}
    /\ bc.err \in {"none", "RuntimeError", "WriteError"}
    /\ bc.si_pos \in 0..NumConns /\ bc.si_used \in 0..NumConns
    /\ bc.snap \subseteq Conns /\ bc.failed \subseteq Conns
    /\ Range(bc.written) \subseteq Conns
    /\ last.op \in {"none", "open", "on_close", "on_message", "broadcast",
                    "head", "post"}
    /\ last.conn \in Conns \cup {0}
    /\ \A i \in 1..Len(last.wrote) :
           last.wrote[i].conn \in Conns /\ last.wrote[i].payload \in Payloads

Opened == {c \in Conns : phase[c] = "open"}
ClosedAfterOpen == {c \in Conns : phase[c] = "closed"}
BroadcastOver == bc.pc \in {"returned", "raised"}
OnMessageFault ==
    last.op = "on_message" /\ (last.disp = "raise" \/ last.wr = "raise")

\* C1: the connection set holds exactly the connections whose open() has
\* run and whose on_close() has not.
C1_RegistryExact == clients = Opened

C1_Witness ==
    /\ last.op = "on_close" /\ last.pre = "open"
    /\ \E c \in Conns : phase[c] = "open" /\ c \in clients

\* C2: a broadcast interleaved with open() and on_close() of other
\* connections never ends in an error: the iteration is never put off by
\* the set changing under it.
C2_BroadcastSurvivesResize == bc.err # "RuntimeError"

\* The connections other than the failing one that were registered at the
\* call, still are, and have a usable channel.
OtherRecipients ==
    {c \in (bc.snap \cap clients) \ bc.failed : ws_connection[c]}

\* C3: a failing write in broadcast is isolated: with other recipients
\* registered, the call still returns normally and every one of them has
\* been written to.
C3_WriteFailureIsolated ==
    (BroadcastOver /\ bc.failed # {} /\ OtherRecipients # {}) =>
        /\ bc.pc = "returned"
        /\ OtherRecipients \subseteq Range(bc.written)

\* C4: when no write fails, a finished broadcast has written its payload
\* exactly once to every connection that was registered at the time of the
\* call (and is still registered, with a usable channel), and to no
\* connection that was not registered then.
C4_BroadcastExact ==
    (BroadcastOver /\ bc.failed = {}) =>
        /\ OtherRecipients \subseteq Range(bc.written)
        /\ Range(bc.written) \subseteq bc.snap
        /\ Len(bc.written) = Cardinality(Range(bc.written))

\* Broadcast on a registry that did not change during the call: a call that
\* returned with the set as it was at the call wrote exactly that set, once
\* each.
BroadcastQuiescentExact ==
    (bc.pc = "returned" /\ clients = bc.snap) =>
        /\ Range(bc.written) = bc.snap
        /\ Len(bc.written) = Cardinality(bc.snap)

\* C5: connections that have each done open() and then on_close(), in any
\* interleaving, leave the number of members where it was without them.
C5_CountRestored ==
    \A S \in SUBSET ClosedAfterOpen :
        Cardinality(clients) = Cardinality(clients \ S)

C5_Witness == Cardinality(ClosedAfterOpen) >= 2

\* C6: a fault while handling a non-empty message (the dispatcher or the
\* write raises) is logged, close() is called exactly when ws_connection was
\* set, and nothing escapes on_message.
C6_FaultClosesUsableChannel ==
    OnMessageFault =>
        /\ last.msg # ""
        /\ last.logged
        /\ ~last.raised
        /\ last.closeCalled <=> (last.pre = "open")
        /\ last.closeCalled => ~ws_connection[last.conn]

C6_Witness ==
    /\ OnMessageFault /\ last.closeCalled
    /\ \E c \in Conns : c # last.conn /\ Lifecycle(c) = "closing"

\* C7: every on_close leaves the connection out of the set, after a client
\* disconnect as after a fault-induced close(), and an on_close that comes
\* again changes nothing.
C7_CloseIdempotent ==
    [][last'.op = "on_close" =>
          /\ last'.conn \notin clients'
          /\ last'.pre \in {"closed", "aborted"} =>
                 UNCHANGED <<clients, phase, ws_connection, faulted, bc>>]_vars

C7_Witness ==
    /\ last.op = "on_close" /\ last.pre = "closed"
    /\ last.conn \in faulted
    /\ \E c \in Conns : last.conn # c /\ c \in clients

\* C8: on_close of a connection that is not in the set leaves the set as it
\* is and raises nothing.
C8_DiscardAbsentNoop ==
    [][(last'.op = "on_close" /\ last'.conn \notin clients) =>
          (clients' = clients /\ ~last'.raised)]_vars

C8_Witness ==
    /\ last.op = "on_close" /\ last.pre = "connecting"
    /\ clients # {}

\* C9: on_message writes a non-empty dispatcher result to its own
\* connection and to no other, writes nothing for an empty result, and
\* post writes no body for an empty result.
C9_ResponseToSenderOnly ==
    /\ last.op = "on_message" =>
          /\ \A i \in 1..Len(last.wrote) : last.wrote[i].conn = last.conn
          /\ last.disp = "response" => last.wr # "none"
          /\ (last.disp = "response" /\ last.wr = "ok") =>
                 last.wrote = <<Write(last.conn, Response(last.msg))>>
          /\ last.disp = "empty" => (last.wrote = <<>> /\ last.wr = "none")
    /\ (last.op = "post" /\ last.disp = "empty") => last.body = <<>>

C9_Witness ==
    /\ last.op = "on_message" /\ last.disp = "response"
    /\ last.wrote # <<>>
    /\ \E c \in clients : c # last.conn /\ ws_connection[c]

\* C10: an empty message is ignored: no dispatch, no write, no log, no
\* close, no error, and the connection stays as it was, open and registered.
C10_EmptyMessageIgnored ==
    [][(last'.op = "on_message" /\ last'.msg = "") =>
          /\ ~last'.dispatched /\ last'.wrote = <<>>
          /\ ~last'.logged /\ ~last'.closeCalled /\ ~last'.raised
          /\ UNCHANGED <<clients, phase, ws_connection, faulted, bc>>
          /\ last'.conn \in clients' /\ phase'[last'.conn] = "open"]_vars

C10_Witness ==
    /\ last.op = "on_message" /\ last.msg = ""
    /\ last.pre = "open"

\* C11: a POST with an empty body is a no-op: the dispatcher is not called,
\* nothing is written (no body, no error page, no error status), nothing is
\* logged and nothing is raised.
C11_EmptyBodyNoop ==
    (last.op = "post" /\ last.msg = "") =>
        /\ ~last.dispatched /\ last.ncalls = 0
        /\ last.body = <<>>
        /\ last.status = "200"
        /\ ~last.logged
        /\ ~last.raised

C11_Witness ==
    /\ last.op = "post" /\ last.msg = ""
    /\ last.body = <<>>

\* C12: every response of the request/response channel carries
\* Cache-Control: no-cache and X-Mopidy-Version: of HEAD, of POST with a
\* body (success or error page) and of POST with an empty body.
C12_FixedHeaders ==
    last.op \in {"head", "post"} => set_mopidy_headers \subseteq last.headers

\* The same for the responses that post and head build themselves, the
\* empty-body POST left out.
FixedHeadersWhenHandled ==
    (last.op = "head" \/ (last.op = "post" /\ last.msg # "")) =>
        set_mopidy_headers \subseteq last.headers

\* C13: a failure while handling a non-empty POST body is caught, never
\* leaves post(), and reaches the client as status 500 with a generic
\* page that carries nothing of the exception.
C13_FaultIs500 ==
    (last.op = "post" /\ last.logged) =>
        /\ ~last.raised
        /\ last.body = <<ErrorPage("500")>>
        /\ last.status = "500"

\* What does hold of a failed POST: it is caught and logged, and the body is
\* the generic page alone.
PostFaultCaught ==
    (last.op = "post" /\ (last.disp = "raise" \/ last.wr = "raise")) =>
        /\ last.logged /\ ~last.raised
        /\ last.body = <<ErrorPage("500")>>
        /\ last.finished

\* C14: one call on the request/response channel makes at most one
\* dispatcher call and at most one write, and never writes both a response
\* body and the error page.
C14_AtMostOneWrite ==
    last.op \in {"head", "post"} =>
        /\ last.ncalls <= 1
        /\ Len(last.body) <= 1
        /\ ~(\E i, j \in DOMAIN last.body :
                last.body[i].kind = "response" /\ last.body[j].kind = "error")

C14_Witness ==
    /\ last.op = "post" /\ last.disp = "response" /\ last.wr = "raise"
    /\ last.body = <<ErrorPage("500")>>

\* C15: HEAD never calls the dispatcher and writes no body: it sets the
\* standard headers and finishes.
C15_HeadOnlyHeaders ==
    last.op = "head" =>
        /\ ~last.dispatched /\ last.ncalls = 0
        /\ last.body = <<>> /\ last.wrote = <<>>
        /\ last.headers = set_extra_headers
        /\ last.finished
        /\ ~last.raised

C15_Witness ==
    /\ last.op = "head" /\ last.finished
    /\ clients # {}

RECURSIVE IsSubseq(_, _)
IsSubseq(a, b) ==
    IF a = <<>> THEN TRUE
    ELSE IF b = <<>> THEN FALSE
    ELSE IF Head(a) = Head(b) THEN IsSubseq(Tail(a), Tail(b))
    ELSE IsSubseq(a, Tail(b))

WireData(entries) == [i \in DOMAIN entries |-> entries[i].data]

\* C16: on one connection the responses are written in the order in which
\* their requests were received, whatever broadcasts and traffic of other
\* connections come in between: the responses written so far answer, in
\* order, requests received so far.
C16_ResponsesInRequestOrder ==
    wire.on =>
        /\ IsSubseq(WireData(wire_responses(wire)),
                    WireData(wire_requests(wire)))
        /\ \A i \in DOMAIN wire.log :
              wire.log[i].dir = "out" =>
                  /\ i > 1
                  /\ wire.log[i - 1] = wire_in(wire.log[i].data)

C16_Witness ==
    /\ wire.on
    /\ Len(wire_responses(wire)) = 2
    /\ wire_responses(wire)[1] # wire_responses(wire)[2]
    /\ wire.conn \in Range(bc.written)
    /\ \E c \in faulted : c # wire.conn

\* C17: the capability table has the same method-name keys for every handler
\* object and never changes after construction; core.describe is one of its
\* entries, and what it describes is exactly the other entries.
C17_TableFixedSelfDescribing ==
    /\ [](\A h \in Handlers :
            /\ jsonrpc[h].objects = jsonrpc[0].objects
            /\ "core.describe" \in jsonrpc[h].objects
            /\ jsonrpc[h].describes = jsonrpc[h].objects \ {"core.describe"})
    /\ [][jsonrpc' = jsonrpc]_vars

C17_Witness ==
    /\ last.op = "post" /\ last.dispatched
    /\ \E c \in Conns : phase[c] = "closed"
    /\ \E c \in Conns : phase[c] = "open"
    /\ "core.describe" \in jsonrpc[0].objects

\* C18: only open() and on_close() change the membership of the connection
\* set: on_message (its fault path and close() included), broadcast, head
\* and post leave it as it is.
C18_OnlyOpenAndCloseChangeSet ==
    [][clients' # clients => last'.op \in {"open", "on_close"}]_vars

C18_Witness ==
    /\ last.op = "on_message" /\ last.closeCalled
    /\ last.conn \in clients
    /\ bc.pc = "loop"

\* C19: the close() of the fault path does not unregister: the connection
\* stays in the set, where broadcast still writes to it, until its on_close
\* is delivered; with on_close delivered after every close(), every faulted
\* connection eventually leaves the set.
C19_FaultedLeavesAtOnClose ==
    /\ [](\A c \in faulted : phase[c] = "open" => c \in clients)
    /\ <>[](faulted \cap clients = {})

C19_Witness ==
    \E c \in faulted :
        /\ Lifecycle(c) = "closing" /\ c \in clients
        /\ bc.err = "WriteError" /\ bc.failed = {c}

\* C20: a failure of the dispatcher or of the write in on_message does not
\* leave on_message and touches no other connection: nothing is written for
\* that message, to the sender or to anyone, and every other connection
\* stays as open and as registered as it was.
C20_FaultConfined ==
    [][(last'.op = "on_message" /\ last'.logged) =>
          /\ ~last'.raised
          /\ last'.wrote = <<>>
          /\ bc' = bc
          /\ \A d \in Conns \ {last'.conn} :
                /\ phase'[d] = phase[d]
                /\ ws_connection'[d] = ws_connection[d]
                /\ (d \in clients') = (d \in clients)]_vars

C20_Witness ==
    /\ last.op = "on_message" /\ last.logged
    /\ \E d \in clients : d # last.conn /\ ws_connection[d]
                             /\ phase[d] = "open"

====
